---- MODULE Spec2Model ----
(***************************************************************************)
(* A model of FsCachingServer (fs-caching-server.js): a caching HTTP       *)
(* proxy that stores upstream responses on the local filesystem.           *)
(*                                                                         *)
(* Every callback the code registers is one action.  Asynchronous          *)
(* filesystem calls whose result is used later (the fs.stat of a request)  *)
(* are split in the moment the call samples the filesystem and the moment  *)
(* its callback runs on the event loop.                                    *)
(***************************************************************************)
EXTENDS Integers, Sequences, FiniteSets, TLC

(* ------------------------------ bounds --------------------------------- *)
\* number of client requests made in one behaviour of Spec
MaxReq == 2
\* number of callbacks handed to onIdle in one behaviour
MaxCb == 2
\* number of client requests made in one behaviour of SpecFill
MaxFill == 3
\* requests made to a server that is never stopped (SpecServe)
MaxServe == 2
\* requests made for an entry the store holds (SpecHit)
MaxHit == 2
\* requests made for one uncached path (SpecWait)
MaxWait == 2
\* requests made to a server whose upstream and disk do not fail (SpecClose)
MaxClose == 2
\* requests made while the server is started, stopped and started again (SpecLife)
MaxLife == 1
\* requests made for two uncached paths (SpecTwo)
MaxTwo == 2
\* requests made with request-targets of several shapes (SpecPath)
MaxPath == 2

\* requests made for one path with differing query strings (SpecQuery)
MaxQuery == 2

\* requests made to an upstream that never answers (SpecHang)
MaxHang == 2

\* requests made to the command-line server (SpecLegacy)
MaxLegacy == 2

\* requests made for other paths while the cache-fill of /a.png may stall
\* (SpecStall)
MaxStall == 1

(* --------------------------- configuration ----------------------------- *)
NO_PROXY_HEADERS == {"date", "server", "host"}
CACHE_METHODS == {"GET", "HEAD"}

\* extensions accepted by the default regex
REGEX == {"png", "jpg", "jpeg", "css", "html", "js", "tar", "tgz", "tar.gz"}

\* opts.cacheDir as path segments
cacheDir == <<"cache">>

(* ------------------------------ requests ------------------------------- *)
Methods == {"GET", "HEAD", "POST"}

\* the request urls of the model (req.url)
Urls == {"/a.png", "/b.txt", "/c.png", "/d.png", "/e.png", "/%.png",
         "/./a.png", "/../a.png", "*/../../a.png",
         "/a.png?v=1", "/a.png?v=2"}

\* url.parse(req.url).pathname, split at "/": the first segment of a
\* pathname that begins with "/" is empty
Pathname(u) ==
    CASE u = "/a.png" -> <<"", "a.png">>
      [] u = "/b.txt" -> <<"", "b.txt">>
      [] u = "/c.png" -> <<"", "c.png">>
      [] u = "/d.png" -> <<"", "d.png">>
      [] u = "/e.png" -> <<"", "e.png">>
      [] u = "/%.png" -> <<"", "%.png">>
      [] u = "/./a.png" -> <<"", ".", "a.png">>
      [] u = "/../a.png" -> <<"", "..", "a.png">>
      [] u = "*/../../a.png" -> <<"*", "..", "..", "a.png">>
      [] u = "/a.png?v=1" -> <<"", "a.png">>
      [] u = "/a.png?v=2" -> <<"", "a.png">>

\* url.parse(req.url).search: the query string with its "?", empty when the
\* url has none
Search(u) ==
    CASE u = "/a.png?v=1" -> "?v=1"
      [] u = "/a.png?v=2" -> "?v=2"
      [] OTHER -> ""

\* url.parse(req.url).path: the pathname as received followed by the search
ParsedPath(u) == <<Pathname(u), Search(u)>>

\* no upstream request has been made
NoPath == <<>>

\* decodeURIComponent throws URIError on a malformed escape sequence
Decodable(u) == \A i \in 1..Len(Pathname(u)) : Pathname(u)[i] # "%.png"

\* extension of the last segment of a path (what REGEX looks at)
Extension(seg) ==
    CASE seg = "a.png" -> "png"
      [] seg = "c.png" -> "png"
      [] seg = "d.png" -> "png"
      [] seg = "e.png" -> "png"
      [] seg = "b.txt" -> "txt"
      [] OTHER -> ""

\* the segments segs resolved onto acc: "." and empty segments are dropped,
\* ".." takes the last segment away; a ".." that has nothing to take away
\* is dropped in an absolute path and kept in a relative one
RECURSIVE NormalizeFrom(_, _, _)
NormalizeFrom(segs, acc, isAbsolute) ==
    IF segs = <<>> THEN acc
    ELSE LET s == Head(segs) IN
         IF s = "." \/ s = "" THEN NormalizeFrom(Tail(segs), acc, isAbsolute)
         ELSE IF s = ".."
              THEN NormalizeFrom(Tail(segs),
                     IF acc # <<>> /\ acc[Len(acc)] # ".."
                     THEN SubSeq(acc, 1, Len(acc) - 1)
                     ELSE IF isAbsolute THEN acc ELSE Append(acc, ".."),
                     isAbsolute)
              ELSE NormalizeFrom(Tail(segs), Append(acc, s), isAbsolute)

\* path.posix.normalize
Normalize(segs) ==
    IF segs # <<>> /\ segs[1] = ""
    THEN <<"">> \o NormalizeFrom(Tail(segs), <<>>, TRUE)
    ELSE NormalizeFrom(segs, <<>>, FALSE)

\* self.regex.test(file)
RegexTest(segs) == segs # <<>> /\ Extension(segs[Len(segs)]) \in REGEX

\* a check that forgets the method
IsCacheable_anyMethod(m, u) == RegexTest(Normalize(Pathname(u)))

\* the request is handled by the cache
IsCacheable(m, u) == m \in CACHE_METHODS /\ RegexTest(Normalize(Pathname(u)))

\* path.join(self.cacheDir, file) for the normalized path of every url: the
\* two are put together and normalized
Joined == [u \in Urls |-> Normalize(cacheDir \o Normalize(Pathname(u)))]

\* the path of the file of a request url
FileOf(u) == Joined[u]

Files == {FileOf(u) : u \in {v \in Urls : Decodable(v)}}

\* the kinds of request a client makes in the model
ReqKinds == {<<"GET", "/a.png">>, <<"HEAD", "/a.png">>, <<"POST", "/a.png">>,
             <<"GET", "/b.txt">>, <<"GET", "/d.png">>, <<"GET", "/%.png">>}

(* ------------------------------ upstream ------------------------------- *)
\* status codes the upstream answers with
Statuses == {200, 301, 404}

\* a range check that takes redirects for successes
Is2xx_upTo400(s) == s >= 200 /\ s < 400

Is2xx(s) == s >= 200 /\ s < 300

\* headers of an upstream response
UpstreamHeaders(s) ==
    CASE s = 301 -> {"location", "date"}
      [] s = 200 -> {"x-fun-header", "server"}
      [] OTHER -> {"date"}

\* the body the upstream sends for its n-th-request: every upstream response
\* has a body of its own (the id of the request that caused it); the response
\* to HEAD and to a redirect has none
NoBody == 0
UpstreamBody(r, m, s) == IF m = "HEAD" \/ s = 301 THEN NoBody ELSE r

\* stats.size of a file with this content: the bodies the upstream sends are
\* all of one length, an empty file has length 0
Size(body) == IF body = NoBody THEN 0 ELSE 1

(* ------------------------------- state --------------------------------- *)
VARIABLES
    server,        \* self.server: "null", "starting", "listening", "closing"
    hasInProgress, \* self.inProgress has been assigned (start() has run)
    inProgress,    \* self.inProgress: file -> queue of waiting requests
    idle,          \* self.idle
    store,         \* the cache directory: what is at the canonical path
    tmp,           \* the cache directory: what is at file + '.in-progress'
    reqs,          \* the client requests made so far, and their fetches
    listeners,     \* callbacks registered with self.once('idle', cb)
    cb,            \* the callbacks handed to onIdle
    emitted,       \* number of 'start' and 'stop' events emitted, last assertion thrown
    noProxyHeaders, \* self.noProxyHeaders
    crashed        \* an exception escaped a callback: the process is gone

vars == <<server, hasInProgress, inProgress, idle, store, tmp, reqs,
          listeners, cb, emitted, noProxyHeaders, crashed>>

CbIds == 1..MaxCb

\* what the cache directory holds at a path: nothing, a directory, or a file
\* with its content (body) and the request whose fetch wrote it (by).  The
\* content of a file that two write streams wrote into is Garbled.
Garbled == -1
NoFile == [kind |-> "none", body |-> NoBody, by |-> 0]
Directory == [kind |-> "dir", body |-> NoBody, by |-> 0]
EmptyMap == [f \in {} |-> <<>>]

\* stats.mtime.getTime(): files are told apart by the fetch that wrote them;
\* a file that was in the cache directory before the server ran has time 0
Mtime(stats) == stats.by

\* an entity tag that also depends on the content of the file
Etag_ofContent(stats) == <<Size(stats.body), Mtime(stats), stats.body>>

\* util.format('"%d-%d"', stats.size, stats.mtime.getTime())
Etag(stats) == <<Size(stats.body), Mtime(stats)>>

\* a request without an If-None-Match header
NoEtag == <<>>

\* a length that is always that of an empty file
ContentLength_zero(stats) == 0

\* res.setHeader('Content-Length', stats.size)
ContentLength(stats) == Size(stats.body)

\* a response without a Content-Length header
NoLength == -1

\* the cache directory when the server is constructed: empty, but for a
\* directory at the path of /d.png
InitStore == [f \in Files |-> IF f = FileOf("/d.png") THEN Directory ELSE NoFile]

Init ==
    /\ server = "null"
    /\ hasInProgress = FALSE
    /\ inProgress = EmptyMap
    /\ idle = TRUE
    /\ store = InitStore
    /\ tmp = [f \in Files |-> NoFile]
    /\ reqs = <<>>
    /\ listeners = {}
    /\ cb = [c \in CbIds |-> [state |-> "unused", calls |-> 0,
                              busy |-> FALSE, regBusy |-> FALSE,
                              after |-> {}, missing |-> {}]]
    /\ emitted = [start |-> 0, stop |-> 0, threw |-> "none"]
    /\ noProxyHeaders = NO_PROXY_HEADERS
    /\ crashed = FALSE

(* ------------------------------ helpers -------------------------------- *)
Range(q) == {q[i] : i \in DOMAIN q}

\* a check that never finds a record
hap_never(file) == FALSE

\* a check that finds a record as soon as any key has one
hap_anyKey(file) == DOMAIN inProgress # {}

\* hap(self.inProgress, file)
hap(file) == file \in DOMAIN inProgress

Registered == DOMAIN inProgress

\* a request as _onRequest receives it
NewReq(m, u) ==
    [method |-> m, url |-> u, inm |-> NoEtag, pc |-> "new", stat |-> NoFile,
     status |-> 0, hdrs |-> {}, body |-> NoBody, full |-> FALSE,
     clen |-> NoLength, opened |-> FALSE,
     up |-> FALSE, fpc |-> "none", reg |-> 0, ostatus |-> 0, oerr |-> FALSE,
     oend |-> FALSE,
     fwd |-> {}, fhost |-> "none", fpath |-> NoPath,
     during |-> 0, after |-> {}, qon |-> 0]

File(q) == FileOf(q.url)

\* the names of the headers of a client's request
ClientHeaders(q) ==
    {"host", "accept", "date"}
      \cup (IF q.inm = NoEtag THEN {} ELSE {"if-none-match"})

\* an upstream request whose uri is made of the pathname alone
Forward_noQuery(q) ==
    [q EXCEPT !.up = TRUE,
              !.fwd = ClientHeaders(q) \ NO_PROXY_HEADERS,
              !.fhost = "upstream",
              !.fpath = <<Pathname(q.url), "">>]

\* the upstream request of q: its uri is self.backendUrl + parsed.path, the
\* client's headers are copied but for those of NO_PROXY_HEADERS, and
\* uri.headers.host = uri.host
Forward(q) ==
    [q EXCEPT !.up = TRUE,
              !.fwd = ClientHeaders(q) \ NO_PROXY_HEADERS,
              !.fhost = "upstream",
              !.fpath = ParsedPath(q.url)]

\* a copy of the upstream headers that leaves none out
ProxiedHeaders_all(s) == UpstreamHeaders(s)

\* the headers copied from the upstream response (NO_PROXY_HEADERS left out)
ProxiedHeaders(s) == UpstreamHeaders(s) \ NO_PROXY_HEADERS

\* res.statusCode = st; res.end()
EndWith(q, st) ==
    [q EXCEPT !.pc = "done", !.status = st, !.full = TRUE]

\* headers that replay those of the upstream on every response from the store
LocalHeaders_replay(h) ==
    h \cup {"last-modified", "content-type", "etag", "x-fun-header"}

\* res.setHeader of Last-Modified, Content-Type and ETag in streamFile, on a
\* response that has the headers h
LocalHeaders(h) == h \cup {"last-modified", "content-type", "etag"}

\* streamFile(file, stats, req, res) with the status code and headers res has
streamFile(q, stats, st, h) ==
    IF q.inm = Etag(stats)
    THEN \* etag matched, end the request
         [q EXCEPT !.pc = "done", !.status = 304, !.full = TRUE,
                   !.hdrs = LocalHeaders(h)]
    ELSE IF q.method = "HEAD"
    THEN [q EXCEPT !.pc = "done", !.status = st, !.full = TRUE,
                   !.hdrs = LocalHeaders(h) \cup {"content-length"},
                   !.clen = ContentLength(stats)]
    ELSE \* fs.createReadStream(file).pipe(res)
         [q EXCEPT !.pc = "done", !.status = st, !.full = TRUE,
                   !.hdrs = LocalHeaders(h) \cup {"content-length"},
                   !.clen = ContentLength(stats),
                   !.opened = TRUE,
                   !.body = store[File(q)].body]

\* the GET requests that triggered a cache-fill and whose client has
\* received a complete response in the 200 range
Received2xx ==
    {r \in DOMAIN reqs : /\ reqs[r].method = "GET" /\ reqs[r].fpc # "none"
                          /\ reqs[r].pc = "done" /\ reqs[r].full
                          /\ Is2xx(reqs[r].status)}

\* those of the requests R whose body a callback that runs now does not find
\* in the file at the canonical path (as fs.readFileSync in the callback
\* of the tests would)
NotInStore(R) ==
    {r \in R : ~(/\ store[File(reqs[r])].kind = "file"
                  /\ store[File(reqs[r])].body = reqs[r].body)}

\* checkIdle()
checkIdle(ip) ==
    IF DOMAIN ip = {}
    THEN /\ idle' = TRUE
         /\ listeners' = {}
         /\ cb' = [c \in CbIds |->
                     IF c \in listeners
                     THEN [cb[c] EXCEPT !.state = "called", !.calls = @ + 1,
                                        !.missing = NotInStore(cb[c].after)]
                     ELSE cb[c]]
    ELSE UNCHANGED <<idle, listeners, cb>>

Without(ip, file) == [f \in DOMAIN ip \ {file} |-> ip[f]]

\* delete self.inProgress[file]: no request owns a record of file any more
Unregister(q, file) == IF FileOf(q.url) = file THEN [q EXCEPT !.reg = 0] ELSE q

\* finish({statusCode: st}) called for file, the requests being rs so far
finishStatus(rs, file, st) ==
    IF ~hap(file)
    THEN \* self.inProgress[file] is undefined: TypeError
         /\ crashed' = TRUE
         /\ reqs' = rs
         /\ UNCHANGED <<inProgress, idle, listeners, cb>>
    ELSE /\ reqs' = [i \in DOMAIN rs |->
                       IF i \in Range(inProgress[file])
                       THEN EndWith(rs[i], st) ELSE Unregister(rs[i], file)]
         /\ inProgress' = Without(inProgress, file)
         /\ checkIdle(Without(inProgress, file))
         /\ UNCHANGED crashed

\* the callback of the fs.stat that finish({ores: ores}) makes
finishOres(rs, file, ost) ==
    IF ~hap(file)
    THEN /\ crashed' = TRUE
         /\ reqs' = rs
         /\ UNCHANGED <<inProgress, idle, listeners, cb>>
    ELSE /\ reqs' = [i \in DOMAIN rs |->
                       IF i \in Range(inProgress[file])
                       THEN CASE store[file].kind = "dir" -> EndWith(rs[i], 400)
                              [] store[file].kind = "file" ->
                                   streamFile(rs[i], store[file], ost,
                                              ProxiedHeaders(ost))
                              [] OTHER -> EndWith(rs[i], 500)
                       ELSE Unregister(rs[i], file)]
         /\ inProgress' = Without(inProgress, file)
         /\ checkIdle(Without(inProgress, file))
         /\ UNCHANGED crashed

(* --------------------------- server lifecycle -------------------------- *)
\* FsCachingServer.prototype.start
start ==
    /\ ~crashed
    /\ UNCHANGED noProxyHeaders
    /\ server = "null"          \* assert(!self.server)
    /\ ~hasInProgress           \* assert(!self.inProgress)
    /\ server' = "starting"
    /\ hasInProgress' = TRUE
    /\ inProgress' = EmptyMap
    /\ idle' = TRUE
    /\ UNCHANGED <<store, tmp, reqs, listeners, cb, emitted, crashed>>

\* FsCachingServer.prototype.start when one of its assertions fails: the
\* AssertionError is thrown before anything is assigned
startRejected ==
    /\ ~crashed
    /\ UNCHANGED noProxyHeaders
    /\ server # "null" \/ hasInProgress
    /\ emitted' = [emitted EXCEPT !.threw =
                      IF server # "null" THEN "server already exists"
                                         ELSE "requests in progress"]
    /\ UNCHANGED <<server, hasInProgress, inProgress, idle, store, tmp, reqs,
                   listeners, cb, crashed>>

\* onListen: the listener is bound
onListen ==
    /\ ~crashed
    /\ UNCHANGED noProxyHeaders
    /\ server = "starting"
    /\ server' = "listening"
    /\ emitted' = [emitted EXCEPT !.start = @ + 1]
    /\ UNCHANGED <<hasInProgress, inProgress, idle, store, tmp, reqs,
                   listeners, cb, crashed>>

\* FsCachingServer.prototype.stop: server.close() stops accepting connections
stop ==
    /\ ~crashed
    /\ UNCHANGED noProxyHeaders
    /\ server = "listening"     \* assert(self.server)
    /\ server' = "closing"
    /\ UNCHANGED <<hasInProgress, inProgress, idle, store, tmp, reqs,
                   listeners, cb, emitted, crashed>>

\* FsCachingServer.prototype.stop when its assertion fails
stopRejected ==
    /\ ~crashed
    /\ UNCHANGED noProxyHeaders
    /\ server = "null"
    /\ emitted' = [emitted EXCEPT !.threw = "server does not exist"]
    /\ UNCHANGED <<server, hasInProgress, inProgress, idle, store, tmp, reqs,
                   listeners, cb, crashed>>

\* the 'close' handler of stop: runs once every connection has ended
onClose ==
    /\ ~crashed
    /\ UNCHANGED noProxyHeaders
    /\ server = "closing"
    /\ \A i \in DOMAIN reqs : reqs[i].pc \in {"done", "closed"}
    /\ idle' = TRUE
    /\ server' = "null"
    /\ emitted' = [emitted EXCEPT !.stop = @ + 1]
    /\ UNCHANGED <<hasInProgress, inProgress, store, tmp, reqs, listeners,
                   cb, crashed>>

\* FsCachingServer.prototype.onIdle
onIdle(c) ==
    /\ ~crashed
    /\ UNCHANGED noProxyHeaders
    /\ cb[c].state = "unused"
    /\ IF idle
       THEN /\ cb' = [cb EXCEPT ![c].state = "called", ![c].calls = @ + 1,
                                ![c].busy = (Registered # {}),
                                ![c].regBusy = (Registered # {}),
                                ![c].after = Received2xx,
                                ![c].missing = NotInStore(Received2xx)]
            /\ UNCHANGED listeners
       ELSE /\ cb' = [cb EXCEPT ![c].state = "waiting",
                                ![c].regBusy = (Registered # {}),
                                ![c].after = Received2xx]
            /\ listeners' = listeners \cup {c}
    /\ UNCHANGED <<server, hasInProgress, inProgress, idle, store, tmp, reqs,
                   emitted, crashed>>

(* ------------------------------ _onRequest ----------------------------- *)
\* the request whose cache-fill registered the record of file that is in
\* self.inProgress now (reg marks it from the registration to the delete)
Owner(file) ==
    LET T == {i \in DOMAIN reqs : reqs[i].reg > 0 /\ File(reqs[i]) = file}
    IN IF T = {} THEN 0 ELSE CHOOSE i \in T : TRUE

\* _onRequest(req, res) up to its first asynchronous call
onRequest(m, u, inm) ==
    /\ ~crashed
    /\ UNCHANGED noProxyHeaders
    /\ server = "listening"
    /\ LET q == [NewReq(m, u) EXCEPT
                   !.inm = inm,
                   !.during = IF Decodable(u) /\ IsCacheable(m, u)
                                 /\ hap(FileOf(u))
                              THEN Owner(FileOf(u)) ELSE 0,
                   !.after = {i \in DOMAIN reqs :
                                reqs[i].pc = "done" /\ reqs[i].url = u}]
       IN reqs' = Append(reqs,
             IF ~Decodable(u) THEN EndWith(q, 400)
             ELSE IF ~IsCacheable(m, u)
                  THEN [Forward(q) EXCEPT !.pc = "proxy"]
                  ELSE [q EXCEPT !.pc = "stat"])
    /\ UNCHANGED <<server, hasInProgress, inProgress, idle, store, tmp,
                   listeners, cb, emitted, crashed>>

\* proxy-only branch: the response callback of self._request
proxyResponse(r, s) ==
    /\ ~crashed
    /\ UNCHANGED noProxyHeaders
    /\ reqs[r].pc = "proxy"
    /\ reqs' = [reqs EXCEPT ![r].pc = "done", ![r].status = s,
                            ![r].hdrs = ProxiedHeaders(s),
                            ![r].body = UpstreamBody(r, reqs[r].method, s),
                            ![r].full = TRUE]
    /\ UNCHANGED <<server, hasInProgress, inProgress, idle, store, tmp,
                   listeners, cb, emitted, crashed>>

\* proxy-only branch: oreq.once('error')
proxyError(r) ==
    /\ ~crashed
    /\ UNCHANGED noProxyHeaders
    /\ reqs[r].pc = "proxy"
    /\ reqs' = [reqs EXCEPT ![r] = EndWith(@, 500)]
    /\ UNCHANGED <<server, hasInProgress, inProgress, idle, store, tmp,
                   listeners, cb, emitted, crashed>>

\* the fs.stat(file) of a cache-eligible request looks at the filesystem
statCall(r) ==
    /\ ~crashed
    /\ UNCHANGED noProxyHeaders
    /\ reqs[r].pc = "stat"
    /\ reqs' = [reqs EXCEPT ![r].pc = "statted",
                            ![r].stat = store[File(reqs[r])]]
    /\ UNCHANGED <<server, hasInProgress, inProgress, idle, store, tmp,
                   listeners, cb, emitted, crashed>>

\* a check that never sees a directory
isDirectory_never(stat) == FALSE

\* stats && stats.isDirectory()
isDirectory(stat) == stat.kind = "dir"

\* the callback of fs.stat(file)
statCallback(r) ==
    /\ ~crashed
    /\ UNCHANGED noProxyHeaders
    /\ reqs[r].pc = "statted"
    /\ LET q == reqs[r]
           file == File(q)
       IN IF isDirectory(q.stat)
          THEN \* directory, give up
               /\ reqs' = [reqs EXCEPT ![r] = EndWith(q, 400)]
               /\ UNCHANGED <<inProgress, idle>>
          ELSE IF q.stat.kind # "none"
          THEN \* file exists, stream it locally
               /\ reqs' = [reqs EXCEPT
                             ![r] = streamFile(q, q.stat, 200, {})]
               /\ UNCHANGED <<inProgress, idle>>
          ELSE IF hap(file)
          THEN \* another request is already proxying for this file
               /\ inProgress' = [inProgress EXCEPT ![file] = Append(@, r)]
               /\ reqs' = [reqs EXCEPT ![r].pc = "queued",
                                       ![r].qon = Owner(file)]
               /\ UNCHANGED idle
          ELSE \* self.inProgress[file] = []; self.idle = false; proxy it
               /\ inProgress' = [f \in DOMAIN inProgress \cup {file} |->
                                   IF f = file THEN <<>> ELSE inProgress[f]]
               /\ idle' = FALSE
               /\ reqs' = [reqs EXCEPT
                             ![r] = [Forward(q) EXCEPT
                                       !.pc = "trigger",
                                       !.fpc = "requested",
                                       !.reg = 1]]
    /\ UNCHANGED <<server, hasInProgress, store, tmp, listeners, cb, emitted,
                   crashed>>

(* ------------------------------ cache-fill ----------------------------- *)
\* the write streams that are open on file + '.in-progress', r's left out
OtherWriters(r, file) ==
    {i \in DOMAIN reqs : i # r /\ File(reqs[i]) = file
                         /\ reqs[i].fpc = "writing" /\ ~reqs[i].oerr}

\* the same with ores.pipe(res): the upstream body reaches the client
endNon2xx_piped(r, q, s) ==
    [EndWith(q, s) EXCEPT !.body = UpstreamBody(r, q.method, s)]

\* res.end() for a status outside the 200 range: the upstream body is not
\* piped to the client
endNon2xx(r, q, s) == EndWith(q, s)

\* a status for the waiters that hides the upstream's
statusForWaiters_generic(s) == 500

\* finish({statusCode: res.statusCode}): the status the queued requests get
statusForWaiters(s) == s

\* the response callback of the cache-fill request
oresResponse(r, s) ==
    /\ ~crashed
    /\ UNCHANGED noProxyHeaders
    /\ reqs[r].fpc = "requested"
    /\ LET q == [reqs[r] EXCEPT !.status = s, !.hdrs = ProxiedHeaders(s),
                                !.ostatus = s]
           file == File(q)
       IN IF ~Is2xx(s)
          THEN \* finish({statusCode: res.statusCode}); res.end()
               LET ended == IF hap(file) THEN endNon2xx(r, q, s) ELSE q
               IN finishStatus([reqs EXCEPT ![r] = [ended EXCEPT
                                                      !.fpc = "answered"]],
                               file, statusForWaiters(s))
          ELSE /\ reqs' = [reqs EXCEPT ![r] = [q EXCEPT !.fpc = "mkdirp"]]
               /\ UNCHANGED <<inProgress, idle, listeners, cb, crashed>>
    /\ UNCHANGED <<server, hasInProgress, store, tmp, emitted>>

\* the callback of mkdirp: the write stream is created and both clones of
\* the upstream response are piped, one to it and one to the client
mkdirpCallback(r) ==
    /\ ~crashed
    /\ UNCHANGED noProxyHeaders
    /\ reqs[r].fpc = "mkdirp"
    /\ LET q == reqs[r]
           file == File(q)
       IN tmp' = [tmp EXCEPT ![file] =
                    [kind |-> "partial",
                     body |-> IF OtherWriters(r, file) # {} THEN Garbled
                              ELSE UpstreamBody(r, q.method, q.ostatus),
                     by |-> r]]
    /\ reqs' = [reqs EXCEPT ![r].fpc = "writing"]
    /\ UNCHANGED <<server, hasInProgress, inProgress, idle, store, listeners,
                   cb, emitted, crashed>>

\* ores_res.pipe(res) has passed the whole upstream body to the client
clientEnd(r) ==
    /\ ~crashed
    /\ UNCHANGED noProxyHeaders
    /\ reqs[r].pc = "trigger"
    /\ reqs[r].fpc \in {"writing", "renaming", "finstat", "served", "over"}
    /\ Is2xx(reqs[r].ostatus)
    /\ ~reqs[r].oerr
    /\ reqs' = [reqs EXCEPT ![r].pc = "done", ![r].full = TRUE,
                            ![r].oend = TRUE,
                            ![r].body = UpstreamBody(r, reqs[r].method,
                                                     reqs[r].ostatus)]
    /\ UNCHANGED <<server, hasInProgress, inProgress, idle, store, tmp,
                   listeners, cb, emitted, crashed>>

\* a disconnect that also ends the download
clientClose_abort(r) ==
    /\ ~crashed
    /\ UNCHANGED noProxyHeaders
    /\ reqs[r].pc = "trigger"
    /\ reqs[r].fpc = "writing"
    /\ ~reqs[r].oerr
    /\ reqs' = [reqs EXCEPT ![r].pc = "closed", ![r].oerr = TRUE]
    /\ UNCHANGED <<server, hasInProgress, inProgress, idle, store, tmp,
                   listeners, cb, emitted, crashed>>

\* the client of the request that triggered the cache-fill disconnects while
\* the body is streamed to it: res is unpiped from its clone of the upstream
\* response; the clone piped to the write stream is not affected
clientClose(r) ==
    /\ ~crashed
    /\ UNCHANGED noProxyHeaders
    /\ reqs[r].pc = "trigger"
    /\ reqs[r].fpc = "writing"
    /\ ~reqs[r].oerr
    /\ reqs' = [reqs EXCEPT ![r].pc = "closed"]
    /\ UNCHANGED <<server, hasInProgress, inProgress, idle, store, tmp,
                   listeners, cb, emitted, crashed>>

\* the client of a request that waits for the upstream (the one that started
\* the cache-fill, or one that is queued on it) gives up and disconnects:
\* nothing listens to the 'close' of req or res, the record and the queue
\* keep them
clientGone(r) ==
    /\ ~crashed
    /\ UNCHANGED noProxyHeaders
    /\ \/ reqs[r].pc = "trigger" /\ reqs[r].fpc = "requested" /\ ~reqs[r].oerr
       \/ reqs[r].pc = "queued"
    /\ reqs' = [reqs EXCEPT ![r].pc = "closed"]
    /\ UNCHANGED <<server, hasInProgress, inProgress, idle, store, tmp,
                   listeners, cb, emitted, crashed>>

\* ws 'finish': the whole upstream body has been written to the temporary file
wsFinish(r) ==
    /\ ~crashed
    /\ UNCHANGED noProxyHeaders
    /\ reqs[r].fpc = "writing"
    /\ ~reqs[r].oerr
    /\ LET file == File(reqs[r])
       IN tmp' = [tmp EXCEPT ![file] =
                    IF @.kind = "partial" /\ @.by = r /\ @.body # Garbled
                       /\ OtherWriters(r, file) = {}
                    THEN [@ EXCEPT !.kind = "complete"]
                    ELSE @]
    /\ reqs' = [reqs EXCEPT ![r].fpc = "renaming", ![r].oend = TRUE]
    /\ UNCHANGED <<server, hasInProgress, inProgress, idle, store, listeners,
                   cb, emitted, crashed>>

\* the callback of fs.rename(tmp, file): ok tells whether the rename worked
renameCallback(r, ok) ==
    /\ ~crashed
    /\ UNCHANGED noProxyHeaders
    /\ reqs[r].fpc = "renaming"
    /\ LET file == File(reqs[r])
       IN IF ok /\ tmp[file].kind # "none" /\ store[file].kind # "dir"
          THEN \* finish({ores: ores}) calls fs.stat
               /\ store' = [store EXCEPT ![file] =
                              [kind |-> "file", body |-> tmp[file].body,
                               by |-> r]]
               /\ tmp' = [tmp EXCEPT ![file] = NoFile]
               /\ reqs' = [reqs EXCEPT ![r].fpc = "finstat"]
               /\ UNCHANGED <<inProgress, idle, listeners, cb, crashed>>
          ELSE /\ finishStatus([reqs EXCEPT ![r].fpc = "over"], file, 500)
               /\ UNCHANGED <<store, tmp>>
    /\ UNCHANGED <<server, hasInProgress, emitted>>

\* the callback of the fs.stat in finish({ores: ores})
finishStatCallback(r) ==
    /\ ~crashed
    /\ UNCHANGED noProxyHeaders
    /\ reqs[r].fpc = "finstat"
    /\ finishOres([reqs EXCEPT ![r].fpc = "served"], File(reqs[r]),
                  reqs[r].ostatus)
    /\ UNCHANGED <<server, hasInProgress, store, tmp, emitted>>

\* an error handler that does not release the queued requests
wsError_noFinish(r) ==
    /\ ~crashed
    /\ reqs[r].fpc = "writing"
    /\ reqs' = [reqs EXCEPT ![r].fpc = "over"]
    /\ UNCHANGED <<server, hasInProgress, inProgress, idle, store, tmp,
                   listeners, cb, emitted, noProxyHeaders, crashed>>

\* ws 'error': opening or writing the temporary file failed
wsError(r) ==
    /\ ~crashed
    /\ UNCHANGED noProxyHeaders
    /\ reqs[r].fpc = "writing"
    /\ finishStatus([reqs EXCEPT ![r].fpc = "over"], File(reqs[r]), 500)
    /\ UNCHANGED <<server, hasInProgress, store, tmp, emitted>>

\* oreq 'error': the connection to the upstream failed; sent tells whether
\* the head of the response to the client had already been written
oreqError(r, sent) ==
    /\ ~crashed
    /\ UNCHANGED noProxyHeaders
    /\ reqs[r].fpc # "none"
    /\ ~reqs[r].oerr
    /\ ~reqs[r].oend
    /\ sent => /\ reqs[r].fpc \in {"writing", "over"}
               /\ Is2xx(reqs[r].ostatus)
               /\ UpstreamBody(r, reqs[r].method, reqs[r].ostatus) # NoBody
    /\ LET q == reqs[r]
           q1 == [q EXCEPT !.oerr = TRUE,
                           !.fpc = IF @ = "requested" THEN "over" ELSE @]
           \* res.statusCode = 500; res.end()
           q2 == IF q.pc = "done" THEN q1
                 ELSE IF sent
                      THEN [q1 EXCEPT !.pc = "done", !.full = FALSE,
                               !.body = UpstreamBody(r, q.method, q.ostatus)]
                      ELSE EndWith(q1, 500)
       IN finishStatus([reqs EXCEPT ![r] = q2], File(q), 500)
    /\ UNCHANGED <<server, hasInProgress, store, tmp, emitted>>

(* --------------------------- specification ----------------------------- *)
Next ==
    \/ start
    \/ onListen
    \/ stop
    \/ onClose
    \/ \E c \in CbIds : onIdle(c)
    \/ \E k \in ReqKinds : Len(reqs) < MaxReq /\ onRequest(k[1], k[2], NoEtag)
    \/ \E r \in DOMAIN reqs, s \in Statuses : proxyResponse(r, s)
    \/ \E r \in DOMAIN reqs : proxyError(r)
    \/ \E r \in DOMAIN reqs : statCall(r)
    \/ \E r \in DOMAIN reqs : statCallback(r)
    \/ \E r \in DOMAIN reqs, s \in Statuses : oresResponse(r, s)
    \/ \E r \in DOMAIN reqs : mkdirpCallback(r)
    \/ \E r \in DOMAIN reqs : clientEnd(r)
    \/ \E r \in DOMAIN reqs : wsFinish(r)
    \/ \E r \in DOMAIN reqs, ok \in BOOLEAN : renameCallback(r, ok)
    \/ \E r \in DOMAIN reqs : finishStatCallback(r)
    \/ \E r \in DOMAIN reqs : wsError(r)
    \/ \E r \in DOMAIN reqs, sent \in BOOLEAN : oreqError(r, sent)

Spec == Init /\ [][Next]_vars

\* the cache-fill protocol alone: up to MaxFill requests GET /a.png to a
\* server that is not stopped
NextFill ==
    \/ start
    \/ onListen
    \/ Len(reqs) < MaxFill /\ onRequest("GET", "/a.png", NoEtag)
    \/ \E r \in DOMAIN reqs : statCall(r)
    \/ \E r \in DOMAIN reqs : statCallback(r)
    \/ \E r \in DOMAIN reqs, s \in Statuses : oresResponse(r, s)
    \/ \E r \in DOMAIN reqs : mkdirpCallback(r)
    \/ \E r \in DOMAIN reqs : clientEnd(r)
    \/ \E r \in DOMAIN reqs : wsFinish(r)
    \/ \E r \in DOMAIN reqs, ok \in BOOLEAN : renameCallback(r, ok)
    \/ \E r \in DOMAIN reqs : finishStatCallback(r)
    \/ \E r \in DOMAIN reqs : wsError(r)
    \/ \E r \in DOMAIN reqs, sent \in BOOLEAN : oreqError(r, sent)

SpecFill == Init /\ [][NextFill]_vars

\* the server answering requests of every kind, never stopped: up to
\* MaxServe requests
NextServe ==
    \/ start
    \/ onListen
    \/ \E k \in ReqKinds : Len(reqs) < MaxServe /\ onRequest(k[1], k[2], NoEtag)
    \/ \E r \in DOMAIN reqs, s \in Statuses : proxyResponse(r, s)
    \/ \E r \in DOMAIN reqs : proxyError(r)
    \/ \E r \in DOMAIN reqs : statCall(r)
    \/ \E r \in DOMAIN reqs : statCallback(r)
    \/ \E r \in DOMAIN reqs, s \in Statuses : oresResponse(r, s)
    \/ \E r \in DOMAIN reqs : mkdirpCallback(r)
    \/ \E r \in DOMAIN reqs : clientEnd(r)
    \/ \E r \in DOMAIN reqs : wsFinish(r)
    \/ \E r \in DOMAIN reqs, ok \in BOOLEAN : renameCallback(r, ok)
    \/ \E r \in DOMAIN reqs : finishStatCallback(r)
    \/ \E r \in DOMAIN reqs : wsError(r)
    \/ \E r \in DOMAIN reqs, sent \in BOOLEAN : oreqError(r, sent)

SpecServe == Init /\ [][NextServe]_vars

\* the cache-fill protocol with a second bound: up to MaxWait requests
\* GET /a.png
NextWait ==
    \/ start
    \/ onListen
    \/ Len(reqs) < MaxWait /\ onRequest("GET", "/a.png", NoEtag)
    \/ \E r \in DOMAIN reqs : statCall(r)
    \/ \E r \in DOMAIN reqs : statCallback(r)
    \/ \E r \in DOMAIN reqs, s \in Statuses : oresResponse(r, s)
    \/ \E r \in DOMAIN reqs : mkdirpCallback(r)
    \/ \E r \in DOMAIN reqs : clientEnd(r)
    \/ \E r \in DOMAIN reqs : wsFinish(r)
    \/ \E r \in DOMAIN reqs, ok \in BOOLEAN : renameCallback(r, ok)
    \/ \E r \in DOMAIN reqs : finishStatCallback(r)
    \/ \E r \in DOMAIN reqs : wsError(r)
    \/ \E r \in DOMAIN reqs, sent \in BOOLEAN : oreqError(r, sent)

SpecWait == Init /\ [][NextWait]_vars

\* the cache-fill of /a.png with clients that may disconnect, an upstream
\* that sends its whole response and a disk that takes every write
NextClose ==
    \/ start
    \/ onListen
    \/ Len(reqs) < MaxClose /\ onRequest("GET", "/a.png", NoEtag)
    \/ \E r \in DOMAIN reqs : statCall(r)
    \/ \E r \in DOMAIN reqs : statCallback(r)
    \/ \E r \in DOMAIN reqs, s \in Statuses : oresResponse(r, s)
    \/ \E r \in DOMAIN reqs : mkdirpCallback(r)
    \/ \E r \in DOMAIN reqs : clientEnd(r)
    \/ \E r \in DOMAIN reqs : clientClose(r)
    \/ \E r \in DOMAIN reqs : wsFinish(r)
    \/ \E r \in DOMAIN reqs : renameCallback(r, TRUE)
    \/ \E r \in DOMAIN reqs : finishStatCallback(r)

\* every callback that is due runs: the write stream finishes, the rename
\* and the stat of finish call back
FairClose ==
    \A r \in 1..(MaxClose + 1) :
        /\ WF_vars(r \in DOMAIN reqs /\ wsFinish(r))
        /\ WF_vars(r \in DOMAIN reqs /\ renameCallback(r, TRUE))
        /\ WF_vars(r \in DOMAIN reqs /\ finishStatCallback(r))

SpecClose == Init /\ [][NextClose]_vars /\ FairClose

\* the life cycle: start() and stop() called in every state of the server,
\* around up to MaxLife requests
NextLife ==
    \/ start
    \/ startRejected
    \/ onListen
    \/ stop
    \/ stopRejected
    \/ onClose
    \/ \E k \in ReqKinds : Len(reqs) < MaxLife /\ onRequest(k[1], k[2], NoEtag)
    \/ \E r \in DOMAIN reqs, s \in Statuses : proxyResponse(r, s)
    \/ \E r \in DOMAIN reqs : statCall(r)
    \/ \E r \in DOMAIN reqs : statCallback(r)
    \/ \E r \in DOMAIN reqs, s \in Statuses : oresResponse(r, s)
    \/ \E r \in DOMAIN reqs : mkdirpCallback(r)
    \/ \E r \in DOMAIN reqs : clientEnd(r)
    \/ \E r \in DOMAIN reqs : wsFinish(r)
    \/ \E r \in DOMAIN reqs : renameCallback(r, TRUE)
    \/ \E r \in DOMAIN reqs : finishStatCallback(r)

SpecLife == Init /\ [][NextLife]_vars

\* cache-fills of two keys side by side: up to MaxTwo requests GET /a.png or
\* GET /c.png
NextTwo ==
    \/ start
    \/ onListen
    \/ \E u \in {"/a.png", "/c.png"} :
          Len(reqs) < MaxTwo /\ onRequest("GET", u, NoEtag)
    \/ \E r \in DOMAIN reqs : statCall(r)
    \/ \E r \in DOMAIN reqs : statCallback(r)
    \/ \E r \in DOMAIN reqs, s \in Statuses : oresResponse(r, s)
    \/ \E r \in DOMAIN reqs : mkdirpCallback(r)
    \/ \E r \in DOMAIN reqs : clientEnd(r)
    \/ \E r \in DOMAIN reqs : wsFinish(r)
    \/ \E r \in DOMAIN reqs, ok \in BOOLEAN : renameCallback(r, ok)
    \/ \E r \in DOMAIN reqs : finishStatCallback(r)
    \/ \E r \in DOMAIN reqs : wsError(r)
    \/ \E r \in DOMAIN reqs, sent \in BOOLEAN : oreqError(r, sent)

\* the callbacks of a cache-fill whose upstream has answered run: mkdirp
\* calls back, the write stream finishes or fails (unless the upstream
\* response broke off), the rename and the stat of finish call back
FairTwo ==
    \A r \in 1..(MaxTwo + 1) :
        /\ WF_vars(r \in DOMAIN reqs /\ mkdirpCallback(r))
        /\ WF_vars(r \in DOMAIN reqs /\ ~reqs[r].oerr
                      /\ (wsFinish(r) \/ wsError(r)))
        /\ WF_vars(r \in DOMAIN reqs
                      /\ \E ok \in BOOLEAN : renameCallback(r, ok))
        /\ WF_vars(r \in DOMAIN reqs /\ finishStatCallback(r))

SpecTwo == Init /\ [][NextTwo]_vars /\ FairTwo

\* the request-targets that the path parsing tells apart: a plain path, one
\* that cannot be decoded, paths with "." and ".." segments, and a target
\* that does not start with a slash
PathUrls == {"/a.png", "/%.png", "/./a.png", "/../a.png", "*/../../a.png"}

\* up to MaxPath requests GET of these targets; the upstream and the disk do
\* not fail
NextPath ==
    \/ start
    \/ onListen
    \/ \E u \in PathUrls : Len(reqs) < MaxPath /\ onRequest("GET", u, NoEtag)
    \/ \E r \in DOMAIN reqs : statCall(r)
    \/ \E r \in DOMAIN reqs : statCallback(r)
    \/ \E r \in DOMAIN reqs, s \in Statuses : oresResponse(r, s)
    \/ \E r \in DOMAIN reqs : mkdirpCallback(r)
    \/ \E r \in DOMAIN reqs : clientEnd(r)
    \/ \E r \in DOMAIN reqs : wsFinish(r)
    \/ \E r \in DOMAIN reqs : renameCallback(r, TRUE)
    \/ \E r \in DOMAIN reqs : finishStatCallback(r)

SpecPath == Init /\ [][NextPath]_vars

\* request urls of one path that differ in their query string only
QueryUrls == {"/a.png?v=1", "/a.png?v=2"}

\* up to MaxQuery requests GET of these urls; the upstream and the disk do
\* not fail
NextQuery ==
    \/ start
    \/ onListen
    \/ \E u \in QueryUrls : Len(reqs) < MaxQuery /\ onRequest("GET", u, NoEtag)
    \/ \E r \in DOMAIN reqs : statCall(r)
    \/ \E r \in DOMAIN reqs : statCallback(r)
    \/ \E r \in DOMAIN reqs, s \in Statuses : oresResponse(r, s)
    \/ \E r \in DOMAIN reqs : mkdirpCallback(r)
    \/ \E r \in DOMAIN reqs : clientEnd(r)
    \/ \E r \in DOMAIN reqs : wsFinish(r)
    \/ \E r \in DOMAIN reqs : renameCallback(r, TRUE)
    \/ \E r \in DOMAIN reqs : finishStatCallback(r)

SpecQuery == Init /\ [][NextQuery]_vars

\* an upstream that neither responds nor fails: up to MaxHang requests
\* GET /a.png, clients that give up, stop() and onIdle() called at any time
NextHang ==
    \/ start
    \/ onListen
    \/ stop
    \/ onClose
    \/ \E c \in CbIds : onIdle(c)
    \/ Len(reqs) < MaxHang /\ onRequest("GET", "/a.png", NoEtag)
    \/ \E r \in DOMAIN reqs : statCall(r)
    \/ \E r \in DOMAIN reqs : statCallback(r)
    \/ \E r \in DOMAIN reqs : clientGone(r)

SpecHang == Init /\ [][NextHang]_vars

(* ------------------- the command-line entry point ---------------------- *)
\* The command-line program keeps its registry in the variable inprogress of
\* the script and has neither a server object nor an idle flag: in the
\* steps below inProgress holds that registry, server is the listener made
\* at load time, and idle, listeners, cb and emitted are never touched.

\* the script has been loaded: http.createServer(onrequest).listen(...) and
\* var inprogress = {}
InitLegacy ==
    /\ server = "listening"
    /\ hasInProgress = TRUE
    /\ inProgress = EmptyMap
    /\ idle = TRUE
    /\ store = InitStore
    /\ tmp = [f \in Files |-> NoFile]
    /\ reqs = <<>>
    /\ listeners = {}
    /\ cb = [c \in CbIds |-> [state |-> "unused", calls |-> 0,
                              busy |-> FALSE, regBusy |-> FALSE,
                              after |-> {}, missing |-> {}]]
    /\ emitted = [start |-> 0, stop |-> 0, threw |-> "none"]
    /\ noProxyHeaders = NO_PROXY_HEADERS
    /\ crashed = FALSE

\* streamfile: the same as streamFile
streamfile(q, stats, st, h) == streamFile(q, stats, st, h)

\* finish() called with no argument, the requests being rs so far: file is
\* undefined, inprogress[undefined] is undefined and .forEach throws a
\* TypeError in a callback; nothing is answered and nothing is deleted
finish(rs) ==
    /\ crashed' = TRUE
    /\ reqs' = rs
    /\ UNCHANGED inProgress

\* onrequest: the path is parsed, a request that is not cached is proxied,
\* and fs.stat is called for one that is
onrequest(m, u) == onRequest(m, u, NoEtag)

\* the fs.stat(file) of onrequest looks at the filesystem
onrequestStatCall(r) == statCall(r)

\* the callback of fs.stat in onrequest
onrequestStat(r) ==
    /\ ~crashed
    /\ reqs[r].pc = "statted"
    /\ LET q == reqs[r]
           file == File(q)
       IN IF isDirectory(q.stat)
          THEN /\ reqs' = [reqs EXCEPT ![r] = EndWith(q, 400)]
               /\ UNCHANGED inProgress
          ELSE IF q.stat.kind # "none"
          THEN /\ reqs' = [reqs EXCEPT
                             ![r] = streamfile(q, q.stat, 200, {})]
               /\ UNCHANGED inProgress
          ELSE IF hap(file)
          THEN \* inprogress[file].push([req, res])
               /\ inProgress' = [inProgress EXCEPT ![file] = Append(@, r)]
               /\ reqs' = [reqs EXCEPT ![r].pc = "queued",
                                       ![r].qon = Owner(file)]
          ELSE \* inprogress[file] = []; proxy it
               /\ inProgress' = [f \in DOMAIN inProgress \cup {file} |->
                                   IF f = file THEN <<>> ELSE inProgress[f]]
               /\ reqs' = [reqs EXCEPT
                             ![r] = [Forward(q) EXCEPT
                                       !.pc = "trigger",
                                       !.fpc = "requested",
                                       !.reg = 1]]
    /\ UNCHANGED <<store, tmp, crashed>>
    /\ UNCHANGED <<server, hasInProgress, idle, listeners, cb, emitted,
                   noProxyHeaders>>

\* the response callback of the upstream request of onrequest: a status
\* other than 200 is piped to the client and finish() is called
onrequestResponse(r, s) ==
    /\ ~crashed
    /\ reqs[r].fpc = "requested"
    /\ LET q == [reqs[r] EXCEPT !.status = s, !.hdrs = ProxiedHeaders(s),
                                !.ostatus = s]
       IN IF s # 200
          THEN finish([reqs EXCEPT ![r] = [q EXCEPT !.fpc = "over"]])
          ELSE /\ reqs' = [reqs EXCEPT ![r] = [q EXCEPT !.fpc = "mkdirp"]]
               /\ UNCHANGED <<inProgress, crashed>>
    /\ UNCHANGED <<store, tmp>>
    /\ UNCHANGED <<server, hasInProgress, idle, listeners, cb, emitted,
                   noProxyHeaders>>

\* the callback of mkdirp in onrequest: as in the server object
onrequestMkdirp(r) == mkdirpCallback(r)

\* ores_res.pipe(res) has passed the whole upstream body to the client
onrequestEnd(r) == clientEnd(r)

\* ws 'finish' in onrequest: fs.rename is called
onrequestWsFinish(r) == wsFinish(r)

\* the callback of fs.rename: finish(file, ores) calls fs.stat when the
\* rename succeeded, finish() is called when it failed
onrequestRename(r, ok) ==
    /\ ~crashed
    /\ reqs[r].fpc = "renaming"
    /\ LET file == File(reqs[r])
       IN IF ok /\ tmp[file].kind # "none" /\ store[file].kind # "dir"
          THEN /\ store' = [store EXCEPT ![file] =
                              [kind |-> "file", body |-> tmp[file].body,
                               by |-> r]]
               /\ tmp' = [tmp EXCEPT ![file] = NoFile]
               /\ reqs' = [reqs EXCEPT ![r].fpc = "finstat"]
               /\ UNCHANGED <<inProgress, crashed>>
          ELSE /\ finish([reqs EXCEPT ![r].fpc = "over"])
               /\ UNCHANGED <<store, tmp>>
    /\ UNCHANGED <<server, hasInProgress, idle, listeners, cb, emitted,
                   noProxyHeaders>>

\* ws 'error' in onrequest: ores.unpipe(ws); finish()
onrequestWsError(r) ==
    /\ ~crashed
    /\ reqs[r].fpc = "writing"
    /\ finish([reqs EXCEPT ![r].fpc = "over"])
    /\ UNCHANGED <<store, tmp>>
    /\ UNCHANGED <<server, hasInProgress, idle, listeners, cb, emitted,
                   noProxyHeaders>>

\* oreq 'error' in onrequest: finish() is called before the client is
\* answered
onrequestError(r) ==
    /\ ~crashed
    /\ reqs[r].fpc # "none"
    /\ ~reqs[r].oerr
    /\ ~reqs[r].oend
    /\ finish([reqs EXCEPT ![r].oerr = TRUE, ![r].fpc = "over"])
    /\ UNCHANGED <<store, tmp>>
    /\ UNCHANGED <<server, hasInProgress, idle, listeners, cb, emitted,
                   noProxyHeaders>>

\* the callback of the fs.stat of finish(file, ores): the queued requests
\* are answered and the record is deleted
finishStat(r) ==
    /\ ~crashed
    /\ reqs[r].fpc = "finstat"
    /\ LET file == File(reqs[r])
           ost == reqs[r].ostatus
           rs == [reqs EXCEPT ![r].fpc = "served"]
       IN IF ~hap(file)
          THEN /\ crashed' = TRUE
               /\ reqs' = rs
               /\ UNCHANGED inProgress
          ELSE /\ reqs' = [i \in DOMAIN rs |->
                             IF i \in Range(inProgress[file])
                             THEN CASE store[file].kind = "dir" ->
                                         EndWith(rs[i], 400)
                                    [] store[file].kind = "file" ->
                                         streamfile(rs[i], store[file], ost,
                                                    ProxiedHeaders(ost))
                                    [] OTHER -> EndWith(rs[i], 500)
                             ELSE Unregister(rs[i], file)]
               /\ inProgress' = Without(inProgress, file)
               /\ UNCHANGED crashed
    /\ UNCHANGED <<store, tmp>>
    /\ UNCHANGED <<server, hasInProgress, idle, listeners, cb, emitted,
                   noProxyHeaders>>

\* the command-line server: up to MaxLegacy requests GET /a.png
NextLegacy ==
    \/ Len(reqs) < MaxLegacy /\ onrequest("GET", "/a.png")
    \/ \E r \in DOMAIN reqs : onrequestStatCall(r)
    \/ \E r \in DOMAIN reqs : onrequestStat(r)
    \/ \E r \in DOMAIN reqs, s \in Statuses : onrequestResponse(r, s)
    \/ \E r \in DOMAIN reqs : onrequestMkdirp(r)
    \/ \E r \in DOMAIN reqs : onrequestEnd(r)
    \/ \E r \in DOMAIN reqs : onrequestWsFinish(r)
    \/ \E r \in DOMAIN reqs, ok \in BOOLEAN : onrequestRename(r, ok)
    \/ \E r \in DOMAIN reqs : onrequestWsError(r)
    \/ \E r \in DOMAIN reqs : onrequestError(r)
    \/ \E r \in DOMAIN reqs : finishStat(r)

SpecLegacy == InitLegacy /\ [][NextLegacy]_vars

\* a file that a former run of the server left in the cache directory
Precached == [kind |-> "file", body |-> 9, by |-> 0]

\* the server constructed on a cache directory that holds a file at the
\* path of /e.png
InitStall ==
    /\ server = "null"
    /\ hasInProgress = FALSE
    /\ inProgress = EmptyMap
    /\ idle = TRUE
    /\ store = [InitStore EXCEPT ![FileOf("/e.png")] = Precached]
    /\ tmp = [f \in Files |-> NoFile]
    /\ reqs = <<>>
    /\ listeners = {}
    /\ cb = [c \in CbIds |-> [state |-> "unused", calls |-> 0,
                              busy |-> FALSE, regBusy |-> FALSE,
                              after |-> {}, missing |-> {}]]
    /\ emitted = [start |-> 0, stop |-> 0, threw |-> "none"]
    /\ noProxyHeaders = NO_PROXY_HEADERS
    /\ crashed = FALSE

\* one request for /a.png that starts a cache-fill, and up to MaxStall
\* requests for /c.png (not cached yet), for /e.png (cached) and for a path
\* that is not cached at all; the upstream and the disk do not fail
NextStall ==
    \/ start
    \/ onListen
    \/ /\ \A i \in DOMAIN reqs : reqs[i].url # "/a.png"
       /\ onRequest("GET", "/a.png", NoEtag)
    \/ \E u \in {"/c.png", "/e.png", "/b.txt"} :
          /\ Cardinality({i \in DOMAIN reqs : reqs[i].url # "/a.png"}) < MaxStall
          /\ onRequest("GET", u, NoEtag)
    \/ \E r \in DOMAIN reqs, s \in Statuses : proxyResponse(r, s)
    \/ \E r \in DOMAIN reqs : statCall(r)
    \/ \E r \in DOMAIN reqs : statCallback(r)
    \/ \E r \in DOMAIN reqs, s \in Statuses : oresResponse(r, s)
    \/ \E r \in DOMAIN reqs : mkdirpCallback(r)
    \/ \E r \in DOMAIN reqs : clientEnd(r)
    \/ \E r \in DOMAIN reqs : wsFinish(r)
    \/ \E r \in DOMAIN reqs : renameCallback(r, TRUE)
    \/ \E r \in DOMAIN reqs : finishStatCallback(r)

\* a callback of request r or of its upstream request runs
StepOf(r) ==
    \/ statCall(r)
    \/ statCallback(r)
    \/ \E s \in Statuses : proxyResponse(r, s)
    \/ \E s \in Statuses : oresResponse(r, s)
    \/ mkdirpCallback(r)
    \/ clientEnd(r)
    \/ wsFinish(r)
    \/ renameCallback(r, TRUE)
    \/ finishStatCallback(r)

\* the upstream answers and the disk completes every request but those for
\* /a.png, whose upstream response and disk write may take for ever
FairStall ==
    WF_vars(\E r \in DOMAIN reqs : reqs[r].url # "/a.png" /\ StepOf(r))

SpecStall == InitStall /\ [][NextStall]_vars /\ FairStall

\* the server constructed on a cache directory that holds a file at the
\* path of /c.png
InitHit ==
    /\ server = "null"
    /\ hasInProgress = FALSE
    /\ inProgress = EmptyMap
    /\ idle = TRUE
    /\ store = [InitStore EXCEPT ![FileOf("/c.png")] = Precached]
    /\ tmp = [f \in Files |-> NoFile]
    /\ reqs = <<>>
    /\ listeners = {}
    /\ cb = [c \in CbIds |-> [state |-> "unused", calls |-> 0,
                              busy |-> FALSE, regBusy |-> FALSE,
                              after |-> {}, missing |-> {}]]
    /\ emitted = [start |-> 0, stop |-> 0, threw |-> "none"]
    /\ noProxyHeaders = NO_PROXY_HEADERS
    /\ crashed = FALSE

\* requests for the stored entry: GET and HEAD, without If-None-Match, with
\* the entity tag of the entry, and with another entity tag
HitKinds ==
    {"GET", "HEAD"} \X {"/c.png"} \X {NoEtag, Etag(Precached), <<0, 0>>}

\* store hits alone: up to MaxHit requests for the stored entry
NextHit ==
    \/ start
    \/ onListen
    \/ \E k \in HitKinds : Len(reqs) < MaxHit /\ onRequest(k[1], k[2], k[3])
    \/ \E r \in DOMAIN reqs : statCall(r)
    \/ \E r \in DOMAIN reqs : statCallback(r)

SpecHit == InitHit /\ [][NextHit]_vars

\* values of opts.noProxyHeaders: absent (the default list) or a list of
\* the caller's
NoProxyOpts == {NO_PROXY_HEADERS, {"accept", "x-fun-header"}}

\* the server constructed with either value of opts.noProxyHeaders
InitOpts ==
    /\ server = "null"
    /\ hasInProgress = FALSE
    /\ inProgress = EmptyMap
    /\ idle = TRUE
    /\ store = InitStore
    /\ tmp = [f \in Files |-> NoFile]
    /\ reqs = <<>>
    /\ listeners = {}
    /\ cb = [c \in CbIds |-> [state |-> "unused", calls |-> 0,
                              busy |-> FALSE, regBusy |-> FALSE,
                              after |-> {}, missing |-> {}]]
    /\ emitted = [start |-> 0, stop |-> 0, threw |-> "none"]
    /\ noProxyHeaders \in NoProxyOpts
    /\ crashed = FALSE

SpecOpts == InitOpts /\ [][NextServe]_vars

(* ------------------------------- claims -------------------------------- *)
\* the request is cache-eligible: its method is one of GET and HEAD and its
\* normalized path ends in one of the extensions of the default pattern
Eligible(q) ==
    /\ Decodable(q.url)
    /\ q.method \in {"GET", "HEAD"}
    /\ LET p == Normalize(Pathname(q.url))
       IN p # <<>> /\ Extension(p[Len(p)]) \in REGEX

\* something went wrong for a cache-fill of file: an upstream answer other
\* than 200, an upstream or disk error, or a crash
FailedFor(file) ==
    \/ crashed
    \/ \E i \in DOMAIN reqs :
         /\ Eligible(reqs[i]) /\ File(reqs[i]) = file
         /\ \/ reqs[i].oerr
            \/ reqs[i].fpc = "over"
            \/ reqs[i].ostatus \notin {0, 200}
            \/ reqs[i].status = 500

\* the step changes what is known of request r, or makes it
Touched(r) == r \notin DOMAIN reqs \/ reqs'[r] # reqs[r]

\* C1: of the GET requests for one cache-eligible path that are received
\* while a cache-fill for that path is registered, none issues an upstream
\* request of its own, and each receives the same body as the request that
\* started the cache-fill (stated for cache-fills in which nothing fails).
C1_OneFetchSameBody ==
    \A t, r \in DOMAIN reqs :
        (/\ reqs[r].during = t
         /\ reqs[t].method = "GET" /\ reqs[r].method = "GET"
         /\ ~FailedFor(File(reqs[r])))
        => /\ ~reqs[r].up
           /\ (reqs[t].pc = "done" /\ reqs[r].pc = "done")
                => reqs[r].body = reqs[t].body

\* C2: a GET for a cache-eligible path that is made after the response to an
\* earlier GET for the same path was received issues no upstream request and
\* receives the same body (stated for cache-fills in which nothing fails).
C2_SecondGetFromCache ==
    \A a, b \in DOMAIN reqs :
        (/\ a \in reqs[b].after
         /\ Eligible(reqs[a]) /\ Eligible(reqs[b])
         /\ reqs[a].method = "GET" /\ reqs[b].method = "GET"
         /\ ~FailedFor(File(reqs[b])))
        => /\ ~reqs[b].up
           /\ reqs[b].pc = "done" => reqs[b].body = reqs[a].body

\* C3: a file at a canonical store path holds the complete body of the
\* upstream response of the cache-fill that renamed it there, never data
\* that is still being written.
C3_CanonicalComplete ==
    \A f \in Files :
        store[f].kind = "file"
        => LET t == store[f].by
           IN store[f].body = UpstreamBody(t, reqs[t].method, reqs[t].ostatus)

\* the request started a cache-fill that the upstream answered with a
\* status outside [200,300)
AnsweredNon2xx(q) ==
    q.fpc # "none" /\ q.ostatus # 0 /\ ~(q.ostatus >= 200 /\ q.ostatus < 300)

\* C4: a cache-fill that the upstream answers with a status outside
\* [200,300) never writes a temporary file and never puts a file at the
\* canonical store path, whatever is queued on it or arrives after it.
C4_NoEntryForNon2xx ==
    \A r \in DOMAIN reqs :
        AnsweredNon2xx(reqs[r])
        => /\ reqs[r].fpc = "answered"
           /\ \A f \in Files : store[f].by # r /\ tmp[f].by # r

\* a redirect was answered to its client and to a queued request, and
\* nothing is at the store path
C4_Witness ==
    \E t, w \in DOMAIN reqs :
        /\ reqs[t].ostatus = 301 /\ reqs[t].pc = "done"
        /\ reqs[w].during = t /\ reqs[w].pc = "done" /\ reqs[w].status = 301
        /\ store[File(reqs[t])].kind = "none"

C6_HeadPublishesNoEmptyEntry ==
    /\ \A f \in Files :
         (store[f].kind = "file" /\ reqs[store[f].by].method = "HEAD")
         => store[f].body # NoBody
    /\ \A h, g \in DOMAIN reqs :
         (/\ h \in reqs[g].after
          /\ reqs[h].method = "HEAD" /\ reqs[g].method = "GET"
          /\ reqs[g].pc = "done" /\ reqs[g].status = 200 /\ reqs[g].full)
         => reqs[g].body # NoBody

\* C7: when the upstream answers a cache-fill with a status outside
\* [200,300), the client that triggered it is answered with that status, the
\* upstream's headers without the excluded ones, and no body; nothing is
\* fetched or stored for it afterwards.
C7_Non2xxPassedThrough ==
    \A r \in DOMAIN reqs :
        AnsweredNon2xx(reqs[r])
        => /\ ~crashed => reqs[r].pc = "done"
           /\ reqs[r].pc = "done"
                => /\ reqs[r].status = reqs[r].ostatus
                   /\ reqs[r].hdrs =
                        UpstreamHeaders(reqs[r].ostatus)
                          \ {"date", "server", "host"}
                   /\ reqs[r].body = NoBody /\ reqs[r].full

\* a client was answered 301 with the Location header of the upstream
C7_Witness ==
    \E r \in DOMAIN reqs :
        /\ reqs[r].ostatus = 301 /\ reqs[r].pc = "done"
        /\ reqs[r].status = 301 /\ "location" \in reqs[r].hdrs

\* C8 as stated: the client that triggered a cache-fill which the upstream
\* answers 404 receives status 404 and the upstream's response body, and no
\* file is created at the store path.
C8_Original ==
    \A r \in DOMAIN reqs :
        (/\ reqs[r].method = "GET" /\ reqs[r].ostatus = 404
         /\ reqs[r].pc = "done")
        => /\ reqs[r].status = 404
           /\ reqs[r].body = UpstreamBody(r, "GET", 404)
           /\ store[File(reqs[r])].by # r

\* C8 amended: that client receives status 404 with an empty body (the
\* upstream's body is not passed on), and no file is created at the store
\* path.
C8_Status404EmptyBody ==
    \A r \in DOMAIN reqs :
        (/\ reqs[r].method = "GET" /\ reqs[r].ostatus = 404
         /\ reqs[r].pc = "done")
        => /\ reqs[r].status = 404
           /\ reqs[r].body = NoBody /\ reqs[r].body # UpstreamBody(r, "GET", 404)
           /\ store[File(reqs[r])].by # r

\* a GET was answered 404 by the upstream and its client has its response
C8_Witness ==
    \E r \in DOMAIN reqs :
        /\ reqs[r].method = "GET" /\ reqs[r].ostatus = 404
        /\ reqs[r].pc = "done" /\ reqs[r].status = 404
        /\ store[File(reqs[r])].kind = "none"

\* C9: a cache-eligible request whose store path is a directory is answered
\* 400 with an empty body; it sends nothing to the upstream, is not queued,
\* starts no cache-fill, and no step of it changes the in-flight registry or
\* the idle flag or crashes the process.
C9_DirectoryIs400 ==
    [][\A r \in DOMAIN reqs' :
         LET q == reqs'[r]
         IN (Eligible(q) /\ store[FileOf(q.url)].kind = "dir")
            => /\ ~q.up /\ q.fpc = "none"
               /\ q.pc \in {"stat", "statted", "done"}
               /\ q.pc = "done" => q.status = 400 /\ q.body = NoBody /\ q.full
               /\ Touched(r) => UNCHANGED <<inProgress, idle, crashed>>]_vars

\* the request for the directory was answered 400 while a cache-fill of
\* another path was registered
C9_Witness ==
    \E r \in DOMAIN reqs :
        /\ reqs[r].url = "/d.png" /\ reqs[r].pc = "done"
        /\ reqs[r].status = 400 /\ reqs[r].during = 0
        /\ ~idle /\ Registered # {} /\ ~crashed

\* C10: a callback given to onIdle is invoked at once when the registry is
\* empty, otherwise at the next transition of the registry to empty; it is
\* never invoked while a cache-fill is registered, and never twice.
C10_OnIdle ==
    \A c \in CbIds :
        /\ ~cb[c].busy
        /\ cb[c].calls <= 1
        /\ cb[c].state = "waiting" => Registered # {}

\* the publish of the cache-fill of r failed or was given up: its upstream
\* request or the write of its temporary file failed, or its rename did
PublishFailed(r) ==
    reqs[r].oerr \/ reqs[r].fpc = "over"

\* C11: a callback handed to onIdle after the client of a GET that triggered
\* a cache-fill received its complete 2xx response runs only when the file at
\* the canonical path exists and holds the bytes that client received
\* (unless the publish of that cache-fill failed).
C11_OnIdleSeesEntry ==
    \A c \in CbIds :
        cb[c].state = "called"
        => \A r \in cb[c].missing : PublishFailed(r)

\* the request found a file at its store path and was answered from it
StoreHit(q) ==
    q.pc = "done" /\ q.fpc = "none" /\ q.qon = 0 /\ q.stat.kind = "file"

C13_ConditionalHit ==
    \A r \in DOMAIN reqs :
        StoreHit(reqs[r])
        => LET q == reqs[r]
               e == store[File(q)]
           IN IF q.inm = <<Size(e.body), e.by>>
              THEN /\ q.status = 304 /\ q.body = NoBody /\ ~q.opened
                   /\ q.clen = NoLength /\ "content-length" \notin q.hdrs
              ELSE /\ q.status = 200
                   /\ {"etag", "last-modified", "content-type",
                       "content-length"} \subseteq q.hdrs
                   /\ q.clen = Size(e.body)
                   /\ q.method = "GET" => q.body = e.body /\ q.opened

\* a GET with the entry's tag was answered 304, and a GET with another tag
\* was answered 200 with the content of the entry
C13_Witness ==
    \E a, b \in DOMAIN reqs :
        /\ StoreHit(reqs[a]) /\ reqs[a].method = "GET"
        /\ reqs[a].inm = <<1, 0>> /\ reqs[a].status = 304
        /\ StoreHit(reqs[b]) /\ reqs[b].method = "GET"
        /\ reqs[b].inm = <<0, 0>> /\ reqs[b].status = 200
        /\ reqs[b].body = store[File(reqs[b])].body /\ reqs[b].body # NoBody

\* C14: the response to the request that triggered a cache-fill carries the
\* upstream's headers without the excluded ones; a response served later on
\* a store hit for the same path carries none of the upstream's headers,
\* only the ones computed from the file.
C14_HeadersOnlyOnFirst ==
    \A r \in DOMAIN reqs :
        /\ (reqs[r].fpc # "none" /\ reqs[r].ostatus = 200)
             => reqs[r].hdrs = {"x-fun-header"}
        /\ StoreHit(reqs[r])
             => /\ reqs[r].hdrs \subseteq {"last-modified", "content-type",
                                            "etag", "content-length"}
                /\ "x-fun-header" \notin reqs[r].hdrs

\* a GET triggered a cache-fill and got the upstream's x-fun-header; a later
\* GET for the same path was served from the store without it
C14_Witness ==
    \E a, b \in DOMAIN reqs :
        /\ a \in reqs[b].after
        /\ reqs[a].fpc = "served" /\ reqs[a].pc = "done"
        /\ "x-fun-header" \in reqs[a].hdrs
        /\ StoreHit(reqs[b]) /\ reqs[b].status = 200
        /\ reqs[b].body = reqs[a].body

\* C15: no header named in the configured exclusion list
\* (self.noProxyHeaders) is in the request forwarded to the upstream or
\* among the upstream headers copied to the client, on the proxy-only path
\* and on the cache-fill path; the forwarded host header is the upstream's
\* authority.
C15_ConfiguredExclusion ==
    \A r \in DOMAIN reqs :
        reqs[r].up
        => /\ reqs[r].fwd \cap noProxyHeaders = {}
           /\ reqs[r].fhost = "upstream"
           /\ reqs[r].hdrs \cap noProxyHeaders = {}

\* the requests that were queued on the record of the cache-fill of r
WaitersOf(r) == {w \in DOMAIN reqs : reqs[w].qon = r}

\* C16: when the upstream request of a cache-fill fails with a transport
\* error, the triggering client and every waiter queued for the key are
\* answered 500, no store entry is created, the record of the key is
\* removed (the process lives on), and no further upstream request is made.
C16_TransportError500 ==
    \A r \in DOMAIN reqs :
        reqs[r].oerr
        => /\ ~crashed
           /\ reqs[r].pc = "done" /\ reqs[r].status = 500
           /\ \A w \in WaitersOf(r) :
                 reqs[w].pc = "done" /\ reqs[w].status = 500
           /\ store[File(reqs[r])].by # r
           /\ ~(hap(File(reqs[r])) /\ Owner(File(reqs[r])) = r)

\* the write of the temporary file of the cache-fill of r, or its rename,
\* failed after a response in the 200 range
PublishBroke(r) ==
    /\ reqs[r].fpc = "over"
    /\ reqs[r].ostatus >= 200 /\ reqs[r].ostatus < 300

\* C17 as stated: when the write or the rename of a 2xx cache-fill fails,
\* the triggering client and every queued waiter are answered 500, and no
\* entry becomes visible at the canonical path.
C17_Original ==
    \A r \in DOMAIN reqs :
        (PublishBroke(r) /\ ~reqs[r].oerr)
        => /\ reqs[r].pc = "done" => reqs[r].status = 500
           /\ \A w \in WaitersOf(r) :
                 reqs[w].pc = "done" /\ reqs[w].status = 500
           /\ store[File(reqs[r])].by # r

\* C17 amended: when the write or the rename of a 2xx cache-fill fails,
\* every queued waiter is answered 500 and no entry becomes visible at the
\* canonical path, while the triggering client still receives the
\* upstream's status and body.
C17_WaitersGet500 ==
    \A r \in DOMAIN reqs :
        PublishBroke(r)
        => /\ \A w \in WaitersOf(r) :
                 /\ reqs[w].pc = "done" /\ reqs[w].status = 500
                 /\ reqs[w].body = NoBody
           /\ store[File(reqs[r])].by # r
           /\ (~reqs[r].oerr /\ reqs[r].pc = "done")
                => /\ reqs[r].status = reqs[r].ostatus
                   /\ reqs[r].status # 500
                   /\ reqs[r].body = r

\* the write failed: the waiter has a 500, the triggering client the whole
\* body with the upstream's status, and nothing is at the canonical path
C17_Witness ==
    \E r, w \in DOMAIN reqs :
        /\ PublishBroke(r) /\ ~reqs[r].oerr
        /\ reqs[r].pc = "done" /\ reqs[r].status = 200 /\ reqs[r].full
        /\ w \in WaitersOf(r) /\ reqs[w].status = 500
        /\ store[File(reqs[r])].kind = "none"

\* C18 as stated: when the upstream answers a cache-fill with a status
\* outside the 200 range, every queued waiter receives a generic
\* server-error status and not the upstream's status.
C18_Original ==
    \A r \in DOMAIN reqs :
        (reqs[r].fpc = "answered" /\ ~reqs[r].oerr)
        => \A w \in WaitersOf(r) :
              reqs[w].pc = "done"
              => reqs[w].status = 500 /\ reqs[w].status # reqs[r].ostatus

\* C18 amended: when the upstream answers a cache-fill with a status
\* outside the 200 range, the triggering client receives that status and, in
\* the same step, every request queued on the record of the key receives
\* that same status, with no header of the upstream and an empty body.
C18_WaitersGetUpstreamStatus ==
    [][\A r \in DOMAIN reqs :
         (reqs[r].fpc = "requested" /\ reqs'[r].fpc = "answered" /\ ~crashed')
         => /\ reqs'[r].status = reqs'[r].ostatus
            /\ ~(reqs'[r].status >= 200 /\ reqs'[r].status < 300)
            /\ \A w \in Range(inProgress[File(reqs[r])]) :
                  /\ reqs[w].pc = "queued"
                  /\ reqs'[w].pc = "done"
                  /\ reqs'[w].status = reqs'[r].ostatus
                  /\ reqs'[w].hdrs = {} /\ reqs'[w].body = NoBody]_vars

\* the upstream answered 404: the triggering client and the waiter have 404
C18_Witness ==
    \E r, w \in DOMAIN reqs :
        /\ reqs[r].fpc = "answered" /\ reqs[r].ostatus = 404
        /\ reqs[r].status = 404
        /\ w \in WaitersOf(r) /\ reqs[w].pc = "done" /\ reqs[w].status = 404

\* the cache-fill of r is through: the entry is published, every request
\* that was queued on it has been answered from the entry, and its record is
\* removed
Published(r) ==
    /\ reqs[r].fpc = "served"
    /\ store[File(reqs[r])].kind = "file"
    /\ store[File(reqs[r])].body # NoBody
    /\ \A w \in WaitersOf(r) :
          /\ reqs[w].pc = "done" /\ reqs[w].status = 200
          /\ reqs[w].body = store[File(reqs[r])].body
    /\ ~(hap(File(reqs[r])) /\ Owner(File(reqs[r])) = r)

\* C19: when the client that triggered a cache-fill disconnects while the
\* body is streamed, the write still completes, the entry is still published
\* by the rename, every queued waiter is still served the entry and the
\* record is still removed.
C19_DisconnectDoesNotStopFill ==
    \A r \in 1..(MaxClose + 1) :
        (r \in DOMAIN reqs /\ reqs[r].pc = "closed" /\ reqs[r].fpc # "served")
        ~> (r \in DOMAIN reqs /\ reqs[r].pc = "closed" /\ Published(r))

\* the client disconnected, and the entry was published and served to a
\* waiter
C19_Witness ==
    \E r, w \in DOMAIN reqs :
        /\ reqs[r].pc = "closed" /\ Published(r)
        /\ w \in WaitersOf(r) /\ reqs[w].status = 200

\* a call of start() or stop() has just been rejected by an assertion
Rejected(msgs) ==
    emitted'.threw # emitted.threw /\ emitted'.threw \in msgs

\* C20: start() on a server without a listener is accepted and 'start' is
\* emitted once, when the bind succeeds; stop() on a started server emits
\* 'stop' once, when the listener has closed, and leaves no listener; start()
\* is rejected only while a listener exists, stop() only while none exists,
\* and a rejected call changes nothing.
C20_StartStop ==
    [][ /\ Rejected({"server already exists", "requests in progress"})
              => server # "null"
        /\ Rejected({"server does not exist"}) => server = "null"
        /\ Rejected({"server already exists", "requests in progress",
                     "server does not exist"})
              => UNCHANGED <<server, hasInProgress, inProgress, idle, store,
                             tmp, reqs, listeners, cb, crashed>>
        /\ emitted'.start # emitted.start
              => /\ emitted'.start = emitted.start + 1
                 /\ server = "starting" /\ server' = "listening"
        /\ emitted'.stop # emitted.stop
              => /\ emitted'.stop = emitted.stop + 1
                 /\ server = "closing" /\ server' = "null"
      ]_vars

\* the step starts the upstream request of a cache-fill for r
StartsFetch(r) ==
    /\ r \in DOMAIN reqs /\ reqs[r].fpc = "none" /\ reqs'[r].fpc # "none"

\* C21: no upstream fetch for a key is started while the registry holds a
\* record for that key: a request that finds the record is queued on it and
\* sends nothing to the upstream; a request that finds neither an entry nor
\* a record registers the key and starts a fetch.
C21_OneFetchPerRecord ==
    [][\A r \in DOMAIN reqs :
         LET file == File(reqs[r]) IN
         /\ StartsFetch(r)
              => /\ file \notin Registered /\ file \in Registered'
                 /\ inProgress'[file] = <<>>
                 /\ reqs'[r].up
         /\ (reqs[r].pc = "statted" /\ reqs'[r].pc # "statted"
               /\ reqs[r].stat.kind = "none")
              => IF file \in Registered
                 THEN /\ reqs'[r].pc = "queued" /\ ~reqs'[r].up
                      /\ reqs'[r].fpc = "none"
                      /\ inProgress'[file] = Append(inProgress[file], r)
                 ELSE StartsFetch(r)]_vars

\* the record of a first fetch was removed without an entry being published,
\* and the next request for the key started a fetch of its own
C21_Witness ==
    \E a, b \in DOMAIN reqs :
        /\ a # b /\ File(reqs[a]) = File(reqs[b])
        /\ reqs[a].fpc = "answered" /\ a \in reqs[b].after
        /\ reqs[b].fpc = "requested" /\ reqs[b].reg > 0
        /\ store[File(reqs[b])].kind = "none"

\* the step is one of the cache-fill of r (a callback of its upstream
\* request, of its write stream or of its rename)
FillStep(r) ==
    reqs'[r].fpc # reqs[r].fpc \/ reqs'[r].oerr # reqs[r].oerr

\* C22: finish runs once for every registration: no callback of a cache-fill
\* finds the record of its key gone (the TypeError of that would end the
\* process), and a record is removed only by a step of the cache-fill that
\* registered it.
C22_FinishOnce ==
    [][/\ ~crashed'
       /\ \A f \in Registered \ Registered' :
            \E r \in DOMAIN reqs :
                /\ File(reqs[r]) = f /\ reqs[r].reg > 0 /\ FillStep(r)]_vars

\* C23: in every state after start(), also while the server is stopping and
\* after it has stopped, self.idle is true exactly if the registry of
\* cache-fills is empty.
C23_IdleIffRegistryEmpty ==
    (hasInProgress /\ ~crashed) => (idle <=> Registered = {})

\* the upstream request of the cache-fill of r has yielded a response or an
\* error
Yielded(r) == r \in DOMAIN reqs /\ (reqs[r].ostatus # 0 \/ reqs[r].oerr)

\* the cache-fill of r is resolved: its record is removed, every request
\* queued on it has been answered, and the server is idle if no record is
\* left
Resolved(r) ==
    /\ r \in DOMAIN reqs /\ reqs[r].reg = 0
    /\ \A w \in WaitersOf(r) : reqs[w].pc = "done"
    /\ Registered = {} => idle

\* C24: every cache-fill whose upstream request yields a response or an
\* error is eventually resolved, whatever the outcome: a status outside the
\* 200 range or a transport error, a published entry, a failed write or
\* rename.
C24_EveryFillResolved ==
    \A r \in 1..(MaxTwo + 1) : Yielded(r) ~> Resolved(r)

\* the rename of the cache-fill of r failed (its write stream had finished)
RenameFailed(r) == reqs[r].fpc = "over" /\ reqs[r].oend /\ ~reqs[r].oerr

\* C25: after the rename of a cache-fill has succeeded and finish has run,
\* every request that was queued on that cache-fill has been answered from
\* the published file: with 304 if its If-None-Match is the entity tag of the
\* entry, otherwise with the status of the upstream and the upstream's
\* headers but for the excluded ones, without a body if its method is HEAD;
\* if the rename failed, every such request has been answered 500.
C25_WaitersAfterRename ==
    \A r, w \in DOMAIN reqs :
        reqs[w].qon = r
        => /\ reqs[r].fpc = "served"
                => /\ reqs[w].pc = "done"
                   /\ IF reqs[w].status = 304
                      THEN reqs[w].inm # NoEtag /\ reqs[w].body = NoBody
                      ELSE /\ reqs[w].status = reqs[r].ostatus
                           /\ ProxiedHeaders(reqs[r].ostatus) \subseteq reqs[w].hdrs
                           /\ reqs[w].hdrs \cap NO_PROXY_HEADERS = {}
                           /\ reqs[w].method = "HEAD" => reqs[w].body = NoBody
                           /\ (reqs[w].method = "GET" /\ reqs[r].method = "GET")
                                => reqs[w].body # NoBody
           /\ RenameFailed(r)
                => reqs[w].pc = "done" /\ reqs[w].status = 500

\* the outcome of the cache-fill of r is known after the step
OutcomeKnown(r) ==
    reqs'[r].fpc \in {"answered", "over", "served"} \/ reqs'[r].oerr

\* C26: the queue of a record holds the waiters in the order in which they
\* were queued (a waiter is added at the end, none is taken out alone), and
\* the waiters are released all in one step, by the cache-fill they were
\* queued on, when its outcome is known, all with the same status and body.
C26_ReleaseTogether ==
    [][/\ \A f \in Registered \cap Registered' :
            \/ inProgress'[f] = inProgress[f]
            \/ \E w \in DOMAIN reqs : inProgress'[f] = Append(inProgress[f], w)
       /\ \A w \in DOMAIN reqs :
            (reqs[w].pc = "queued" /\ reqs'[w].pc # "queued")
            => LET r == reqs[w].qon IN
               /\ FillStep(r) /\ OutcomeKnown(r)
               /\ \A v \in WaitersOf(r) :
                    /\ reqs'[v].pc = "done"
                    /\ reqs'[v].status = reqs'[w].status
                    /\ reqs'[v].body = reqs'[w].body]_vars

\* C27: an entry that has been published at a canonical path is never
\* replaced or modified: no step changes the file at a path that holds a
\* published entry.
C27_PublishedNeverReplaced ==
    [][\A f \in Files : store[f].kind = "file" => store'[f] = store[f]]_vars

\* request r is fully answered and, if it triggered a cache-fill that the
\* upstream answered in the 200 range, its entry is published
Settled(r) ==
    /\ reqs[r].pc = "done" /\ reqs[r].full
    /\ reqs[r].fpc # "none"
         => IF Is2xx(reqs[r].ostatus)
            THEN /\ reqs[r].fpc = "served"
                 /\ store[File(reqs[r])].kind = "file"
            ELSE reqs[r].fpc = "answered"

\* C28: whether or not the cache-fill of /a.png ever completes, every request
\* for another path (a store miss, a store hit, a request that is not cached)
\* is fully answered, and the entry of a cache-fill for another path is
\* published: from some point on, every such request received is settled.
C28_OtherKeysNotBlocked ==
    <>[](\A r \in DOMAIN reqs : reqs[r].url # "/a.png" => Settled(r))

\* while the cache-fill of /a.png is registered and its file is not
\* complete, a request for /c.png that came after it has been answered and
\* has published its entry
C28_Witness ==
    \E a, b \in DOMAIN reqs :
        /\ a < b
        /\ reqs[a].url = "/a.png" /\ reqs[a].reg > 0
        /\ reqs[a].fpc \in {"requested", "writing"}
        /\ FileOf("/a.png") \in Registered
        /\ reqs[b].url = "/c.png" /\ Settled(b) /\ reqs[b].fpc = "served"
        /\ reqs[b].body # NoBody

\* the file lies in the cache directory
InsideRoot(file) ==
    /\ Len(file) > Len(cacheDir)
    /\ SubSeq(file, 1, Len(cacheDir)) = cacheDir

\* the segments of the request path as the client wrote them
Written(u) == SelectSeq(Pathname(u), LAMBDA s : s # "")

\* followed from the cache directory, the path the client wrote leaves it
AttemptsEscape(u) ==
    Decodable(u) /\ ~InsideRoot(Normalize(cacheDir \o Written(u)))

\* the request is answered with a client error and nothing else is done
ClientError(q) ==
    q.pc = "done" /\ q.status \in 400..499 /\ ~q.up /\ q.fpc = "none"

\* C29: a request whose path cannot be decoded is answered 400 with no
\* upstream request and no change to the store or the registry; the store
\* path of every other cache-eligible request lies inside the cache
\* directory; a path that attempts to leave the cache directory is answered
\* with a client error.
C29_PathsStayInside ==
    [][\A r \in DOMAIN reqs' \ DOMAIN reqs :
          LET q == reqs'[r]
          IN  /\ ~Decodable(q.url)
                   => /\ ClientError(q) /\ q.status = 400
                      /\ store' = store /\ inProgress' = inProgress
              /\ (Decodable(q.url) /\ IsCacheable(q.method, q.url))
                   => InsideRoot(File(q)) \/ ClientError(q)
              /\ AttemptsEscape(q.url) => ClientError(q)]_vars

\* C30: the key of a request is made from its path alone: requests that
\* differ in their query string only have the same store path, a request
\* that finds the record of that path is queued on it whatever its query
\* and sends nothing to the upstream, at most one cache-fill of the path is
\* registered and one entry is stored, and the upstream request a request
\* makes carries that request's own query string.
C30_KeyFromPathOnly ==
    /\ \A r, s \in DOMAIN reqs :
          Pathname(reqs[r].url) = Pathname(reqs[s].url)
          => File(reqs[r]) = File(reqs[s])
    /\ \A r \in DOMAIN reqs :
          reqs[r].qon # 0
          => /\ ~reqs[r].up
             /\ File(reqs[reqs[r].qon]) = File(reqs[r])
    /\ \A r, s \in DOMAIN reqs :
          (reqs[r].reg > 0 /\ reqs[s].reg > 0
             /\ Pathname(reqs[r].url) = Pathname(reqs[s].url))
          => r = s
    /\ Cardinality({f \in Files : store[f].kind = "file"})
          <= Cardinality({Pathname(reqs[r].url) : r \in DOMAIN reqs})
    /\ \A r \in DOMAIN reqs :
          reqs[r].up
          => /\ reqs[r].fpath[1] = Pathname(reqs[r].url)
             /\ reqs[r].fpath[2] = Search(reqs[r].url)

\* a request with one query string fetched the file from the upstream with
\* that query string, a request with another query string was queued on it,
\* and both were served the one published entry
C30_Witness ==
    \E a, b \in DOMAIN reqs :
        /\ Search(reqs[a].url) # Search(reqs[b].url)
        /\ Search(reqs[a].url) # "" /\ Search(reqs[b].url) # ""
        /\ reqs[a].up /\ reqs[a].fpath[2] = Search(reqs[a].url)
        /\ reqs[b].qon = a /\ ~reqs[b].up
        /\ reqs[a].fpc = "served"
        /\ store[File(reqs[a])].kind = "file"
        /\ \A r \in {a, b} :
              /\ reqs[r].pc = "done" /\ reqs[r].full
              /\ reqs[r].status = 200
              /\ reqs[r].body = store[File(reqs[a])].body

\* the upstream request of the cache-fill of r is made and has neither been
\* answered nor failed
Stalled(r) == reqs[r].fpc = "requested" /\ ~reqs[r].oerr

\* C31: as long as the upstream has neither answered nor failed the request
\* of a cache-fill, the record of its key stays in the registry, every
\* request for the key that came after it is queued and not answered, the
\* server is not idle, and no onIdle callback is invoked.
C31_StalledFillBlocks ==
    [][\A r \in DOMAIN reqs :
          (Stalled(r) /\ Stalled(r)')
          => /\ File(reqs[r]) \in Registered'
             /\ \A w \in DOMAIN reqs' :
                   (reqs'[w].during = r /\ reqs'[w].pc \notin {"stat", "statted"})
                   => /\ reqs'[w].qon = r
                      /\ reqs'[w].status = 0 /\ reqs'[w].pc # "done"
             /\ ~idle'
             /\ \A c \in CbIds : cb'[c].calls = cb[c].calls]_vars

\* C32: once 'stop' has been emitted and no listener exists, the server is
\* stopped as it was before the first start(): a call of start() is not
\* rejected, and the step that leaves this state is a start() that begins
\* to listen with an empty registry and idle true.
C32_RestartAccepted ==
    [][(server = "null" /\ emitted.stop > 0)
          => /\ ~Rejected({"server already exists", "requests in progress"})
             /\ server' # "null"
                   => /\ server' = "starting"
                      /\ Registered' = {} /\ idle']_vars

\* C33: in the command-line program, once the cache-fill of r has failed
\* (a status other than 200, an error of the upstream request, a write
\* error or a failed rename), every request queued on it is answered, the
\* record of its file is removed, and the program goes on handling
\* requests for the file.
C33_LegacyFailureReleases ==
    \A r \in DOMAIN reqs :
        reqs[r].fpc = "over"
        => /\ \A w \in WaitersOf(r) :
                 reqs[w].pc = "done" /\ reqs[w].status # 0
           /\ reqs[r].reg = 0
           /\ ~crashed

====
